---- MODULE Spec2Model ----
(***************************************************************************)
(* Model of the contact-form relay: src/server.js (the relay with the      *)
(* /send-message and /send-file endpoints) and src/unnamed/part_000 (the   *)
(* older /send-message-only deployment).                                   *)
(*                                                                         *)
(* Strings are sequences of one-character strings, so that replace,        *)
(* startsWith and concatenation are computed character by character.       *)
(* JavaScript values are records [t |-> type, s |-> characters].           *)
(***************************************************************************)
EXTENDS Integers, Sequences, FiniteSets, TLC

VARIABLES
    env,            \* process.env: [token |-> BOOLEAN, chat |-> BOOLEAN] (is it set)
    procState,      \* "starting" | "running" | "exited"
    now,            \* Date.now()
    pc,             \* per request: position of its middleware / handler
    route,          \* per request: "none" | "/send-message" | "/send-file"
    obs,            \* per request: what the client sent (facts the claims speak of)
    file,           \* per request: req.file (NoFile when multer stored none)
    filePath,       \* per request: the handler's local `filePath` (Null or a path)
    responses,      \* per request: the responses written to res, in order
    apiCalls,       \* per request: outbound calls to the bot API, in order
    apiResult,      \* per request: what the awaited call produced
    thrown,         \* per request: the exception its catch block caught (or NoError)
    handlerRan,     \* per request: did the route's handler body start
    escaped,        \* per request: did an error leave the handler uncaught
    disk,           \* the uploads directory: set of [name, owner]
    pendingUnlink,  \* fs.unlink calls issued and not yet completed (paths)
    opened,         \* paths given to fs.createReadStream
    unlinked,       \* paths given to fs.unlink
    arg,            \* pure-function specifications: the input
    ret,            \* pure-function specifications: the outcome
    callee          \* pure-function specifications: which function was applied

vars == <<env, procState, now, pc, route, obs, file, filePath, responses,
          apiCalls, apiResult, thrown, handlerRan, escaped, disk, pendingUnlink,
          opened, unlinked, arg, ret, callee>>

(***************************************************************************)
(* Bounds                                                                  *)
(***************************************************************************)
MaxLen == 3          \* longest text given to sanitizeInput on its own
MaxDepth == 3        \* most segments of a path given to the path guard on its own
MaxClock == 2        \* Date.now() ranges over 1..MaxClock
MaxRandom == 1       \* Math.round(Math.random() * 1E9) ranges over 0..MaxRandom

\* the requests in flight together
Requests == {"r1", "r2"}

(***************************************************************************)
(* JavaScript values                                                       *)
(***************************************************************************)
\* a value: its typeof-like tag, its characters (a string), its number (a number)
Undefined == [t |-> "undefined", s |-> <<>>, n |-> 0]
Null == [t |-> "null", s |-> <<>>, n |-> 0]
Zero == [t |-> "number", s |-> <<>>, n |-> 0]
Seven == [t |-> "number", s |-> <<>>, n |-> 7]
\* an array or an object, as a JSON body or a multipart field name[] gives
Obj == [t |-> "object", s |-> <<>>, n |-> 0]

Str(chars) == [t |-> "string", s |-> chars, n |-> 0]

\* !v is false
Truthy(v) ==
    CASE v.t = "string" -> v.s # <<>>
      [] v.t = "number" -> v.n # 0
      [] v.t = "object" -> TRUE
      [] OTHER -> FALSE

RECURSIVE ReplaceAll(_, _, _)
\* s.replace(/c/g, by)
ReplaceAll(s, c, by) ==
    IF s = <<>> THEN <<>>
    ELSE (IF Head(s) = c THEN by ELSE <<Head(s)>>) \o ReplaceAll(Tail(s), c, by)

Lt == <<"&", "l", "t", ";">>
Gt == <<"&", "g", "t", ";">>

Returned(v) == [ok |-> TRUE, value |-> v, error |-> ""]
Threw(msg) == [ok |-> FALSE, value |-> Undefined, error |-> msg]

\* server.js: the outcome of sanitizeInput(text)
sanitizeInput(text) ==
    IF ~Truthy(text) THEN Returned(Str(<<>>))
    ELSE IF text.t = "string"
         THEN Returned(Str(ReplaceAll(ReplaceAll(text.s, "<", Lt), ">", Gt)))
         ELSE Threw("text.replace is not a function")

\* part_000: the outcome of sanitizeInput(text)
sanitizeInputTypeof(text) ==
    IF text.t # "string" THEN Returned(Str(<<>>))
    ELSE Returned(Str(ReplaceAll(ReplaceAll(text.s, "<", Lt), ">", Gt)))

(***************************************************************************)
(* Paths.  A path is a sequence of segments, a segment a sequence of       *)
(* characters; Render gives the string path.resolve returns.               *)
(***************************************************************************)
Sep == "/"
Dot == <<".">>
DotDot == <<".", ".">>

\* __dirname and the name of the directory under it
Dirname == << <<"a">> >>
UploadsName == <<"u", "p">>

\* const uploadsDir = path.join(__dirname, 'uploads')
uploadsDir == Dirname \o <<UploadsName>>

RECURSIVE ResolveOnto(_, _)
ResolveOnto(stack, segs) ==
    IF segs = <<>> THEN stack
    ELSE LET h == Head(segs) IN
         ResolveOnto(
             IF h = Dot THEN stack
             ELSE IF h = DotDot
                  THEN (IF stack = <<>> THEN stack ELSE SubSeq(stack, 1, Len(stack) - 1))
                  ELSE Append(stack, h),
             Tail(segs))

\* path.resolve(p) of an absolute path: "." and ".." resolved
Resolve(p) == ResolveOnto(<<>>, p)

RECURSIVE Render(_)
\* the string of a resolved path: "/" for the root, else "/seg" per segment
Render(p) ==
    IF p = <<>> THEN <<Sep>>
    ELSE IF Len(p) = 1 THEN <<Sep>> \o p[1]
    ELSE Render(SubSeq(p, 1, Len(p) - 1)) \o <<Sep>> \o p[Len(p)]

StartsWith(s, prefix) ==
    /\ Len(prefix) =< Len(s)
    /\ SubSeq(s, 1, Len(prefix)) = prefix

EndsWith(s, c) == s # <<>> /\ s[Len(s)] = c

\* the guard forgotten its separators: resolvedPath.startsWith(resolvedUploadsPath)
isWithinUploadsNoSep(p) == StartsWith(Render(Resolve(p)), Render(Resolve(uploadsDir)))

\* the guard of sendTelegramFile and removeFile:
\* normalizedResolvedPath.startsWith(normalizedUploadsPath)
isWithinUploads(p) ==
    LET resolvedPath == Render(Resolve(p))
        resolvedUploadsPath == Render(Resolve(uploadsDir))
        normalizedResolvedPath == resolvedPath \o <<Sep>>
        normalizedUploadsPath ==
            IF EndsWith(resolvedUploadsPath, Sep) THEN resolvedUploadsPath
            ELSE resolvedUploadsPath \o <<Sep>>
    IN  StartsWith(normalizedResolvedPath, normalizedUploadsPath)

\* segment-wise containment, the yardstick the guard is measured against
IsUploadsRoot(p) == Resolve(p) = Resolve(uploadsDir)

IsDescendantOfUploads(p) ==
    LET r == Resolve(p)
        u == Resolve(uploadsDir)
    IN  Len(r) > Len(u) /\ SubSeq(r, 1, Len(u)) = u

(***************************************************************************)
(* Values the pure-function specifications draw their inputs from          *)
(***************************************************************************)
SeqsUpTo(S, n) == UNION {[1..k -> S] : k \in 0..n}

Alphabet == {"<", ">", "&", "a"}
Texts == {Str(c) : c \in SeqsUpTo(Alphabet, MaxLen)} \cup {Undefined, Null, Zero, Seven, Obj}

Segments == {<<"a">>, UploadsName, <<"u", "p", "x">>, <<"u">>, <<"f">>, DotDot}
Paths == SeqsUpTo(Segments, MaxDepth)

NoError == ""

(***************************************************************************)
(* Requests, responses, errors                                             *)
(***************************************************************************)
Resp(status, success, message) ==
    [status |-> status, success |-> success, message |-> message]

MsgMessageRequired == "Name, email, and message are required."
MsgFileRequired == "Name and email are required."
MsgConfig == "Server configuration error. Please contact administrator."
MsgMessageSent == "Message sent successfully!"
MsgFileSent == "File and information sent successfully!"
MsgMessageFailed == "Failed to send message. Please try again."
MsgFileFailed == "Failed to send file. Please try again."
MsgMessageError == "An error occurred while sending your message."
MsgFileError == "An error occurred while processing your request."
MsgTooLarge == "File size exceeds 20 MB limit."
MsgUploadError == "File upload error: Unexpected field"
MsgUnexpected == "An unexpected error occurred."

\* texts of the exceptions the handlers can meet
ErrTypeNotSupported ==
    "File type not supported. Please upload images, documents, or common media files."
ErrUnexpectedField == "Unexpected field"
ErrFileTooLarge == "File too large"
ErrBodyParse == "Unexpected token in JSON"
ErrInvalidPath == "Invalid file path"
ErrFetch == "request to https://api.telegram.org/bot<token>/ failed, reason: ECONNREFUSED"
ErrJson == "invalid json response body"

\* an error object: is it a multer.MulterError, its code, its message
Err(isMulter, code, message) == [multer |-> isMulter, code |-> code, message |-> message]

Mime(type, subtype) == [type |-> type, subtype |-> subtype]
NoMime == Mime("", "")

\* the allow-list of the fileFilter
allowedMimes ==
    {Mime("image", "jpeg"), Mime("image", "png"), Mime("image", "gif"),
     Mime("image", "webp"), Mime("image", "svg+xml"),
     Mime("application", "pdf"),
     Mime("application", "msword"),
     Mime("application", "vnd.openxmlformats-officedocument.wordprocessingml.document"),
     Mime("application", "vnd.ms-excel"),
     Mime("application", "vnd.openxmlformats-officedocument.spreadsheetml.sheet"),
     Mime("application", "vnd.ms-powerpoint"),
     Mime("application", "vnd.openxmlformats-officedocument.presentationml.presentation"),
     Mime("text", "plain"),
     Mime("application", "zip"),
     Mime("application", "x-rar-compressed"),
     Mime("video", "mp4"), Mime("video", "mpeg"), Mime("video", "quicktime"),
     Mime("audio", "mpeg"), Mime("audio", "wav"), Mime("audio", "ogg")}

\* limits: { fileSize: 20 * 1024 * 1024 }
fileSize == 20 * 1024 * 1024

\* a fileFilter that lets every type through
fileFilterAcceptAll(mimetype) == TRUE

\* fileFilter: cb(null, true) or cb(new Error('File type not supported ...'))
fileFilter(mimetype) == mimetype \in allowedMimes

\* file.mimetype.startsWith('image/')
isImage(mimetype) == mimetype.type = "image"

RECURSIVE Digits(_)
\* the decimal string of a natural number
Digits(n) ==
    LET d == <<"0", "1", "2", "3", "4", "5", "6", "7", "8", "9">>[(n % 10) + 1]
    IN  IF n < 10 THEN <<d>> ELSE Digits(n \div 10) \o <<d>>

\* filename: Date.now() + '-' + Math.round(Math.random() * 1E9) + '-' + file.originalname
filename(time, random, originalname) ==
    Digits(time) \o <<"-">> \o Digits(random) \o <<"-">> \o originalname

\* destination + filename: the path multer stores the file under
StoredPath(name) == uploadsDir \o <<name>>

NoFile == [present |-> FALSE, path |-> <<>>, originalname |-> <<>>, mimetype |-> NoMime]
\* let filePath = null
NullPath == [set |-> FALSE, path |-> <<>>]
PathOf(p) == [set |-> TRUE, path |-> p]

\* what clients send
BodyValues == {Undefined, Str(<<>>), Str(<<"<", "b", ">">>), Obj}
MimeInputs == {Mime("image", "png"), Mime("application", "pdf"),
               Mime("application", "x-msdownload")}
\* a small file and one a byte over the limit
SizeInputs == {1, fileSize + 1}
FieldNames == {"file", "other"}
OriginalNames == {<<"f">>}

AbsentOrEmpty(v) == v = Undefined \/ v = Str(<<>>)

NoBody == [name |-> Undefined, email |-> Undefined, text |-> Undefined]
NoObs == [malformed |-> FALSE, absent |-> FALSE, attached |-> FALSE,
          fieldname |-> "", mimetype |-> NoMime, size |-> 0]

\* outcomes of an awaited call to the bot API: response.json() with ok true or
\* false, or fetch / response.json() rejecting
ApiOutcomes ==
    {[kind |-> "ok", error |-> NoError], [kind |-> "notok", error |-> NoError],
     [kind |-> "threw", error |-> ErrFetch], [kind |-> "threw", error |-> ErrJson]}
NoOutcome == [kind |-> "none", error |-> NoError]

\* the global handler that forgets to answer upload-library errors
globalErrorHandlerSilent(err) == <<>>

\* app.use((err, req, res, next) => ...): the responses it writes
\* (err.message.includes('File type not supported') is true of the fileFilter's
\* error alone among the errors that reach the handler)
globalErrorHandler(err) ==
    IF err.multer
    THEN IF err.code = "LIMIT_FILE_SIZE"
         THEN <<Resp(400, FALSE, MsgTooLarge)>>
         ELSE <<Resp(400, FALSE, MsgUploadError)>>
    ELSE IF err.message = ErrTypeNotSupported
         THEN <<Resp(400, FALSE, err.message)>>
         ELSE <<Resp(500, FALSE, MsgUnexpected)>>

\* the uploads directory
DiskWrite(d, name, owner) ==
    {e \in d : e.name # name} \cup {[name |-> name, owner |-> owner]}
DiskRemove(d, name) == {e \in d : e.name # name}
\* fs.existsSync(p)
existsSync(d, p) == \E e \in d : StoredPath(e.name) = p

\* removeFile(filePath): the paths it hands to fs.unlink, given what
\* fs.existsSync(filePath) answers
removeFile(p, exists) ==
    IF ~isWithinUploads(p) THEN {}
    ELSE IF exists THEN {p} ELSE {}

(***************************************************************************)
(* server.js                                                               *)
(***************************************************************************)
Configured == env.token /\ env.chat

InitRequests ==
    /\ pc = [r \in Requests |-> "idle"]
    /\ route = [r \in Requests |-> "none"]
    /\ obs = [r \in Requests |-> NoObs]
    /\ file = [r \in Requests |-> NoFile]
    /\ filePath = [r \in Requests |-> NullPath]
    /\ responses = [r \in Requests |-> <<>>]
    /\ apiCalls = [r \in Requests |-> <<>>]
    /\ apiResult = [r \in Requests |-> NoOutcome]
    /\ thrown = [r \in Requests |-> NoError]
    /\ handlerRan = [r \in Requests |-> FALSE]
    /\ escaped = [r \in Requests |-> FALSE]
    /\ disk = {}
    /\ pendingUnlink = {}
    /\ opened = {}
    /\ unlinked = {}

NotApplied ==
    /\ arg = Undefined
    /\ ret = Returned(Undefined)
    /\ callee = "none"

\* the process after app.listen: the environment may lack either secret
Init ==
    /\ env \in [token : BOOLEAN, chat : BOOLEAN]
    /\ procState = "running"
    /\ now = 1
    /\ InitRequests
    /\ NotApplied

\* time passes
Tick ==
    /\ now < MaxClock
    /\ now' = now + 1
    /\ UNCHANGED <<env, procState, pc, route, obs, file, filePath, responses,
                   apiCalls, apiResult, thrown, handlerRan, escaped, disk,
                   pendingUnlink, opened, unlinked, arg, ret, callee>>

\* catch (error) of /send-message: the responses it writes
sendMessageCatch(error) == <<Resp(500, FALSE, MsgMessageError)>>

\* catch (error) of /send-file: the responses it writes (multer errors never
\* reach it: upload.single hands them to next(err), not to the handler)
sendFileCatch(error) ==
    <<Resp(500, FALSE, IF error # "" THEN error ELSE MsgFileError)>>

\* if (result.ok) ... else ...: the responses written for a parsed API result
MessageResult(outcome) ==
    IF outcome.kind = "ok" THEN <<Resp(200, TRUE, MsgMessageSent)>>
    ELSE <<Resp(500, FALSE, MsgMessageFailed)>>

FileResult(outcome) ==
    IF outcome.kind = "ok" THEN <<Resp(200, TRUE, MsgFileSent)>>
    ELSE <<Resp(500, FALSE, MsgFileFailed)>>

\* the three sanitizeInput calls of a handler, in order: the first that throws
\* ends them; otherwise the three sanitized strings
SanitizeAll(b) ==
    LET n == sanitizeInput(b.name)
        e == sanitizeInput(b.email)
        t == sanitizeInput(b.text)
        error == IF ~n.ok THEN n.error ELSE IF ~e.ok THEN e.error
                 ELSE IF ~t.ok THEN t.error ELSE NoError
    IN  [ok |-> error = NoError, error |-> error,
         name |-> n.value.s, email |-> e.value.s, text |-> t.value.s]

\* an outbound call to the bot API: the endpoint and the text or caption sent
Call(endpoint, text) == [endpoint |-> endpoint, text |-> text]

\* the text /send-message builds
MessageText(san) ==
    <<"<b>New Contact Form Message</b>\n\n<b>Name:</b> ">> \o san.name
    \o <<"\n<b>Email:</b> ">> \o san.email \o <<"\n<b>Message:</b>\n">> \o san.text

\* the caption /send-file builds for a file
CaptionText(san) ==
    <<"<b>New File Upload</b>\n\n<b>Name:</b> ">> \o san.name
    \o <<"\n<b>Email:</b> ">> \o san.email
    \o (IF san.text # <<>> THEN <<"\n<b>Explanation:</b>\n">> \o san.text ELSE <<>>)

\* the text /send-file builds when no file came
NoFileText(san) ==
    <<"<b>New Contact Submission (No File)</b>\n\n<b>Name:</b> ">> \o san.name
    \o <<"\n<b>Email:</b> ">> \o san.email
    \o (IF san.text # <<>> THEN <<"\n<b>Message:</b>\n">> \o san.text ELSE <<>>)

\* what one run of a handler, from where it starts to its next await or to its
\* return, does: the responses it writes, the API calls it starts, the exception
\* its catch block caught, where it stands afterwards, its local filePath, and
\* the paths it hands to fs.unlink and fs.createReadStream
Step(resp, calls, error, next, fp, unlinks, opens) ==
    [resp |-> resp, calls |-> calls, error |-> error, next |-> next,
     filePath |-> fp, unlinks |-> unlinks, opens |-> opens]

\* app.post('/send-message'): from the start to the await of sendTelegramTextMessage
sendMessageHandler(b, configured) ==
    IF ~Truthy(b.name) \/ ~Truthy(b.email) \/ ~Truthy(b.text)
    THEN Step(<<Resp(400, FALSE, MsgMessageRequired)>>, <<>>, NoError, "done",
              NullPath, {}, {})
    ELSE IF ~configured
    THEN Step(<<Resp(500, FALSE, MsgConfig)>>, <<>>, NoError, "done", NullPath, {}, {})
    ELSE IF ~SanitizeAll(b).ok
    THEN Step(sendMessageCatch(SanitizeAll(b).error), <<>>, SanitizeAll(b).error,
              "done", NullPath, {}, {})
    ELSE Step(<<>>, <<Call("sendMessage", MessageText(SanitizeAll(b)))>>, NoError,
              "awaitMessage", NullPath, {}, {})

\* app.post('/send-message'): from the result of the await to the end
sendMessageResume(outcome) ==
    IF outcome.kind = "threw"
    THEN Step(sendMessageCatch(outcome.error), <<>>, outcome.error, "done",
              NullPath, {}, {})
    ELSE Step(MessageResult(outcome), <<>>, NoError, "done", NullPath, {}, {})

\* the effect of a Step of request r on the state of the server
Apply(r, st) ==
    /\ responses' = [responses EXCEPT ![r] = @ \o st.resp]
    /\ apiCalls' = [apiCalls EXCEPT ![r] = @ \o st.calls]
    /\ thrown' = [thrown EXCEPT ![r] = IF st.error # NoError THEN st.error ELSE @]
    /\ escaped' = [escaped EXCEPT ![r] = @ \/ (st.error # NoError /\ st.resp = <<>>)]
    /\ pc' = [pc EXCEPT ![r] = st.next]
    /\ filePath' = [filePath EXCEPT ![r] = st.filePath]
    /\ pendingUnlink' = pendingUnlink \cup st.unlinks
    /\ unlinked' = unlinked \cup st.unlinks
    /\ opened' = opened \cup st.opens

\* a request the body parser or the upload middleware refused: next(err)
Refused(err) == Step(globalErrorHandler(err), <<>>, NoError, "done", NullPath, {}, {})

\* POST /send-message arrives: express.json parses the body (a body it cannot
\* parse goes to the global error handler) and the handler runs to its await
SendMessage(r) ==
    /\ procState = "running"
    /\ pc[r] = "idle"
    /\ \E malformed \in BOOLEAN, name \in BodyValues, email \in BodyValues,
          message \in BodyValues :
        LET b == [name |-> name, email |-> email, text |-> message] IN
        /\ malformed => b = NoBody
        /\ route' = [route EXCEPT ![r] = "/send-message"]
        /\ obs' = [obs EXCEPT ![r] =
                      [NoObs EXCEPT !.malformed = malformed,
                                    !.absent = ~malformed /\
                                        (AbsentOrEmpty(name) \/ AbsentOrEmpty(email)
                                         \/ AbsentOrEmpty(message))]]
        /\ handlerRan' = [handlerRan EXCEPT ![r] = ~malformed]
        /\ Apply(r, IF malformed THEN Refused(Err(FALSE, "", ErrBodyParse))
                    ELSE sendMessageHandler(b, Configured))
    /\ UNCHANGED <<env, procState, now, file, apiResult, disk, arg, ret, callee>>

\* the awaited sendTelegramTextMessage of /send-message settles
SendMessageResume(r) ==
    /\ pc[r] = "awaitMessage"
    /\ \E outcome \in ApiOutcomes :
        /\ apiResult' = [apiResult EXCEPT ![r] = outcome]
        /\ Apply(r, sendMessageResume(outcome))
    /\ UNCHANGED <<env, procState, now, route, obs, file, handlerRan, disk,
                   arg, ret, callee>>

\* sendTelegramFile up to its await of fetch: the guard throws, or the file is
\* opened with fs.createReadStream and the request is started
sendTelegramFileStart(p) ==
    IF ~isWithinUploads(p) THEN [error |-> ErrInvalidPath, opens |-> {}]
    ELSE [error |-> NoError, opens |-> {p}]

\* app.post('/send-file'): the handler body from its start to its await
sendFileHandler(b, f, configured, d) ==
    IF ~Truthy(b.name) \/ ~Truthy(b.email)
    THEN Step(<<Resp(400, FALSE, MsgFileRequired)>>, <<>>, NoError, "done", NullPath,
              IF f.present THEN removeFile(f.path, existsSync(d, f.path)) ELSE {}, {})
    ELSE IF ~configured
    THEN Step(<<Resp(500, FALSE, MsgConfig)>>, <<>>, NoError, "done", NullPath,
              IF f.present THEN removeFile(f.path, existsSync(d, f.path)) ELSE {}, {})
    ELSE IF ~SanitizeAll(b).ok
    THEN \* thrown before filePath = file.path: the catch block removes nothing
         Step(sendFileCatch(SanitizeAll(b).error), <<>>, SanitizeAll(b).error, "done",
              NullPath, {}, {})
    ELSE IF f.present
    THEN LET start == sendTelegramFileStart(f.path) IN
         IF start.error # NoError
         THEN Step(sendFileCatch(start.error), <<>>, start.error, "done",
                   PathOf(f.path), removeFile(f.path, existsSync(d, f.path)), {})
         ELSE Step(<<>>,
                   <<Call(IF isImage(f.mimetype) THEN "sendPhoto" ELSE "sendDocument",
                          CaptionText(SanitizeAll(b)))>>,
                   NoError, "awaitFile", PathOf(f.path), {}, start.opens)
    ELSE Step(<<>>, <<Call("sendMessage", NoFileText(SanitizeAll(b)))>>, NoError,
              "awaitText", NullPath, {}, {})

\* app.post('/send-file'): from the result of await sendTelegramFile to the end
sendFileResume(outcome, fp, d) ==
    IF outcome.kind = "threw"
    THEN Step(sendFileCatch(outcome.error), <<>>, outcome.error, "done", fp,
              IF fp.set THEN removeFile(fp.path, existsSync(d, fp.path)) ELSE {}, {})
    ELSE Step(FileResult(outcome), <<>>, NoError, "done", fp,
              removeFile(fp.path, existsSync(d, fp.path)), {})

\* app.post('/send-file'): from the result of await sendTelegramTextMessage to the end
sendFileTextResume(outcome) ==
    IF outcome.kind = "threw"
    THEN Step(sendFileCatch(outcome.error), <<>>, outcome.error, "done", NullPath, {}, {})
    ELSE Step(MessageResult(outcome), <<>>, NoError, "done", NullPath, {}, {})

\* upload.single('file') on a request without a file part: next() with no req.file
UploadNoFile(r) ==
    /\ procState = "running"
    /\ pc[r] = "idle"
    /\ route' = [route EXCEPT ![r] = "/send-file"]
    /\ pc' = [pc EXCEPT ![r] = "handler"]
    /\ UNCHANGED <<env, procState, now, obs, file, filePath, responses, apiCalls,
                   apiResult, thrown, handlerRan, escaped, disk, pendingUnlink,
                   opened, unlinked, arg, ret, callee>>

\* upload.single('file') on a request with a file part: the field name is
\* checked, then the fileFilter, then the file is written under its generated
\* name; a file over the size limit is removed again and refused
UploadFile(r) ==
    /\ procState = "running"
    /\ pc[r] = "idle"
    /\ \E fieldname \in FieldNames, mimetype \in MimeInputs, size \in SizeInputs,
          originalname \in OriginalNames, random \in 0..MaxRandom :
        LET stored == filename(now, random, originalname)
            refusal ==
                IF fieldname # "file"
                THEN Err(TRUE, "LIMIT_UNEXPECTED_FILE", ErrUnexpectedField)
                ELSE IF ~fileFilter(mimetype) THEN Err(FALSE, "", ErrTypeNotSupported)
                ELSE IF size > fileSize THEN Err(TRUE, "LIMIT_FILE_SIZE", ErrFileTooLarge)
                ELSE Err(FALSE, "", NoError)
        IN
        /\ route' = [route EXCEPT ![r] = "/send-file"]
        /\ obs' = [obs EXCEPT ![r] =
                      [NoObs EXCEPT !.attached = TRUE, !.fieldname = fieldname,
                                    !.mimetype = mimetype, !.size = size]]
        /\ IF refusal.message = NoError
           THEN /\ file' = [file EXCEPT ![r] =
                               [present |-> TRUE, path |-> StoredPath(stored),
                                originalname |-> originalname, mimetype |-> mimetype]]
                /\ disk' = DiskWrite(disk, stored, r)
                /\ pc' = [pc EXCEPT ![r] = "handler"]
                /\ UNCHANGED <<filePath, responses, apiCalls, thrown, escaped,
                               pendingUnlink, opened, unlinked>>
           ELSE /\ disk' = IF refusal.code = "LIMIT_FILE_SIZE"
                           THEN DiskRemove(disk, stored) ELSE disk
                /\ Apply(r, Refused(refusal))
                /\ UNCHANGED file
    /\ UNCHANGED <<env, procState, now, apiResult, handlerRan, arg, ret, callee>>

\* the handler body of /send-file runs to its await or to its response; req.body
\* is first read here, so the fields the client sent are drawn here
SendFile(r) ==
    /\ pc[r] = "handler"
    /\ \E name \in BodyValues, email \in BodyValues, explanation \in BodyValues :
        /\ obs' = [obs EXCEPT ![r].absent = AbsentOrEmpty(name) \/ AbsentOrEmpty(email)]
        /\ handlerRan' = [handlerRan EXCEPT ![r] = TRUE]
        /\ Apply(r, sendFileHandler([name |-> name, email |-> email, text |-> explanation],
                                    file[r], Configured, disk))
    /\ UNCHANGED <<env, procState, now, route, file, apiResult, disk, arg, ret, callee>>

\* the awaited sendTelegramFile settles
SendFileResume(r) ==
    /\ pc[r] = "awaitFile"
    /\ \E outcome \in ApiOutcomes :
        /\ apiResult' = [apiResult EXCEPT ![r] = outcome]
        /\ Apply(r, sendFileResume(outcome, filePath[r], disk))
    /\ UNCHANGED <<env, procState, now, route, obs, file, handlerRan, disk,
                   arg, ret, callee>>

\* the awaited sendTelegramTextMessage of /send-file settles
SendFileTextResume(r) ==
    /\ pc[r] = "awaitText"
    /\ \E outcome \in ApiOutcomes :
        /\ apiResult' = [apiResult EXCEPT ![r] = outcome]
        /\ Apply(r, sendFileTextResume(outcome))
    /\ UNCHANGED <<env, procState, now, route, obs, file, handlerRan, disk,
                   arg, ret, callee>>

\* an fs.unlink issued by removeFile completes (a failure is only logged)
UnlinkCompletes(p) ==
    /\ p \in pendingUnlink
    /\ pendingUnlink' = pendingUnlink \ {p}
    /\ disk' = {e \in disk : StoredPath(e.name) # p}
    /\ UNCHANGED <<env, procState, now, pc, route, obs, file, filePath,
                   responses, apiCalls, apiResult, thrown, handlerRan, escaped,
                   opened, unlinked, arg, ret, callee>>

Next ==
    \/ Tick
    \/ \E r \in Requests : SendMessage(r)
    \/ \E r \in Requests : SendMessageResume(r)
    \/ \E r \in Requests : UploadNoFile(r)
    \/ \E r \in Requests : UploadFile(r)
    \/ \E r \in Requests : SendFile(r)
    \/ \E r \in Requests : SendFileResume(r)
    \/ \E r \in Requests : SendFileTextResume(r)
    \/ \E p \in pendingUnlink : UnlinkCompletes(p)

Spec == Init /\ [][Next]_vars

(***************************************************************************)
(* part_000: the deployment with /send-message alone                       *)
(***************************************************************************)
MsgRelaySent == "Message sent successfully!"
MsgRelayFailed == "Failed to send message."
MsgRelayError == "An error occurred."

\* the telegramMessage template
RelayText(n, e, m) ==
    <<"\n<b>New Contact Form Submission</b>\n<b>Name:</b> ">> \o n
    \o <<"\n<b>Email:</b> ">> \o e \o <<"\n<b>Message:</b>\n">> \o m \o <<"\n        ">>

\* the module before app.listen: the secrets are read and checked
InitRelay ==
    /\ env \in [token : BOOLEAN, chat : BOOLEAN]
    /\ procState = "starting"
    /\ now = 1
    /\ InitRequests
    /\ NotApplied

\* if (!BOT_TOKEN || !CHAT_ID) process.exit(1); otherwise app.listen
RelayStartup ==
    /\ procState = "starting"
    /\ procState' = IF ~env.token \/ ~env.chat THEN "exited" ELSE "running"
    /\ UNCHANGED <<env, now, pc, route, obs, file, filePath, responses, apiCalls,
                   apiResult, thrown, handlerRan, escaped, disk, pendingUnlink,
                   opened, unlinked, arg, ret, callee>>

\* app.post('/send-message') of part_000: from the start to the await of fetch
relayHandler(b) ==
    Step(<<>>,
         <<Call("sendMessage",
                RelayText(sanitizeInputTypeof(b.name).value.s,
                          sanitizeInputTypeof(b.email).value.s,
                          sanitizeInputTypeof(b.text).value.s))>>,
         NoError, "awaitMessage", NullPath, {}, {})

\* app.post('/send-message') of part_000: from the result of the awaits to the end
relayResume(outcome) ==
    IF outcome.kind = "threw"
    THEN Step(<<Resp(500, FALSE, MsgRelayError)>>, <<>>, outcome.error, "done",
              NullPath, {}, {})
    ELSE IF outcome.kind = "ok"
    THEN Step(<<Resp(200, TRUE, MsgRelaySent)>>, <<>>, NoError, "done", NullPath, {}, {})
    ELSE Step(<<Resp(500, FALSE, MsgRelayFailed)>>, <<>>, NoError, "done", NullPath, {}, {})

\* POST /send-message arrives at the running process
RelaySendMessage(r) ==
    /\ procState = "running"
    /\ pc[r] = "idle"
    /\ \E name \in BodyValues, email \in BodyValues, message \in BodyValues :
        /\ route' = [route EXCEPT ![r] = "/send-message"]
        /\ obs' = [obs EXCEPT ![r] =
                      [NoObs EXCEPT !.absent = AbsentOrEmpty(name) \/ AbsentOrEmpty(email)
                                               \/ AbsentOrEmpty(message)]]
        /\ handlerRan' = [handlerRan EXCEPT ![r] = TRUE]
        /\ Apply(r, relayHandler([name |-> name, email |-> email, text |-> message]))
    /\ UNCHANGED <<env, procState, now, file, apiResult, disk, arg, ret, callee>>

\* the awaited fetch and response.json() settle
RelayResume(r) ==
    /\ pc[r] = "awaitMessage"
    /\ \E outcome \in ApiOutcomes :
        /\ apiResult' = [apiResult EXCEPT ![r] = outcome]
        /\ Apply(r, relayResume(outcome))
    /\ UNCHANGED <<env, procState, now, route, obs, file, handlerRan, disk, arg, ret,
                   callee>>

NextRelay ==
    \/ RelayStartup
    \/ \E r \in Requests : RelaySendMessage(r)
    \/ \E r \in Requests : RelayResume(r)

SpecRelay == InitRelay /\ [][NextRelay]_vars

(***************************************************************************)
(* sanitizeInput on its own: both versions applied to every text           *)
(***************************************************************************)
Quiet ==
    /\ env = [token |-> TRUE, chat |-> TRUE]
    /\ procState = "running"
    /\ now = 1
    /\ InitRequests

InitSanitize ==
    /\ Quiet
    /\ arg \in Texts
    /\ ret = Returned(Undefined)
    /\ callee = "none"

ApplySanitizeInput ==
    /\ callee = "none"
    /\ callee' = "sanitizeInput"
    /\ ret' = sanitizeInput(arg)
    /\ UNCHANGED <<env, procState, now, pc, route, obs, file, filePath, responses,
                   apiCalls, apiResult, thrown, handlerRan, escaped, disk,
                   pendingUnlink, opened, unlinked, arg>>

ApplySanitizeInputTypeof ==
    /\ callee = "none"
    /\ callee' = "sanitizeInputTypeof"
    /\ ret' = sanitizeInputTypeof(arg)
    /\ UNCHANGED <<env, procState, now, pc, route, obs, file, filePath, responses,
                   apiCalls, apiResult, thrown, handlerRan, escaped, disk,
                   pendingUnlink, opened, unlinked, arg>>

NextSanitize == ApplySanitizeInput \/ ApplySanitizeInputTypeof

SpecSanitize == InitSanitize /\ [][NextSanitize]_vars

(***************************************************************************)
(* The path guard on its own: sendTelegramFile and removeFile applied to   *)
(* every path                                                              *)
(***************************************************************************)
InitPathGuard ==
    /\ Quiet
    /\ arg \in Paths
    /\ ret = Returned(Undefined)
    /\ callee = "none"

\* sendTelegramFile(chatId, file, caption, isImage) with file.path = arg
CallSendTelegramFile ==
    /\ callee = "none"
    /\ callee' = "sendTelegramFile"
    /\ LET start == sendTelegramFileStart(arg) IN
        /\ opened' = opened \cup start.opens
        /\ IF start.error # NoError
           THEN ret' = Threw(start.error)
           ELSE \E outcome \in ApiOutcomes :
                    ret' = IF outcome.kind = "threw" THEN Threw(outcome.error)
                           ELSE Returned(Str(<<outcome.kind>>))
    /\ UNCHANGED <<env, procState, now, pc, route, obs, file, filePath, responses,
                   apiCalls, apiResult, thrown, handlerRan, escaped, disk,
                   pendingUnlink, unlinked, arg>>

\* removeFile(arg), whatever fs.existsSync answers
CallRemoveFile ==
    /\ callee = "none"
    /\ callee' = "removeFile"
    /\ \E exists \in BOOLEAN :
        /\ unlinked' = unlinked \cup removeFile(arg, exists)
        /\ ret' = Returned(Str(<<IF exists THEN "exists" ELSE "missing">>))
    /\ UNCHANGED <<env, procState, now, pc, route, obs, file, filePath, responses,
                   apiCalls, apiResult, thrown, handlerRan, escaped, disk,
                   pendingUnlink, opened, arg>>

NextPathGuard == CallSendTelegramFile \/ CallRemoveFile

SpecPathGuard == InitPathGuard /\ [][NextPathGuard]_vars

(***************************************************************************)
(* Properties                                                              *)
(***************************************************************************)
Finished(r) == pc[r] = "done"

OwnFileOnDisk(r) ==
    \E e \in disk : e.owner = r /\ file[r].present /\ StoredPath(e.name) = file[r].path

Answered(r, status, success) ==
    /\ Len(responses[r]) = 1
    /\ responses[r][1].status = status
    /\ responses[r][1].success = success

InFlightWithFile(r) == pc[r] \in {"handler", "awaitFile"} /\ file[r].present

GenericMessages == {MsgMessageError, MsgFileError, MsgUnexpected}

\* C1: a finished /send-file request whose file multer stored, and whose unlink
\* (if any) has completed, has left no file of its own in the uploads directory.
C1_CleanupInvariant ==
    \A r \in Requests :
        (Finished(r) /\ file[r].present /\ file[r].path \notin pendingUnlink)
            => ~OwnFileOnDisk(r)

\* C2: a /send-message request with name, email or message absent or empty never
\* makes an outbound call, and is answered 400 with success = false.
C2_MissingFieldRefused ==
    \A r \in Requests :
        (route[r] = "/send-message" /\ obs[r].absent)
            => /\ apiCalls[r] = <<>>
               /\ Finished(r) => Answered(r, 400, FALSE)

\* C3: a request never has two responses, a finished request has exactly one,
\* and no error leaves a handler uncaught.
C3_ExactlyOneResponse ==
    \A r \in Requests :
        /\ Len(responses[r]) =< 1
        /\ Finished(r) => Len(responses[r]) = 1
        /\ ~escaped[r]

\* C3 witness: both a refused upload and a caught exception ended with one response.
C3_Witness ==
    \E r1, r2 \in Requests :
        /\ Finished(r1) /\ obs[r1].attached /\ ~handlerRan[r1] /\ Len(responses[r1]) = 1
        /\ Finished(r2) /\ thrown[r2] # NoError /\ Len(responses[r2]) = 1

InsideUploads(p) == IsUploadsRoot(p) \/ IsDescendantOfUploads(p)

\* C4 (as stated): for a path that is not a descendant of the uploads directory,
\* sendTelegramFile throws 'Invalid file path' and opens nothing, removeFile
\* unlinks nothing; only descendants are ever opened or unlinked.
C4_PathGuardDescendants ==
    /\ (callee = "sendTelegramFile" /\ ~IsDescendantOfUploads(arg))
           => (ret = Threw(ErrInvalidPath) /\ opened = {})
    /\ (callee = "removeFile" /\ ~IsDescendantOfUploads(arg)) => unlinked = {}
    /\ \A p \in opened \cup unlinked : IsDescendantOfUploads(p)

\* C4 (amended): for a path that resolves neither to the uploads directory itself
\* nor to a descendant of it, sendTelegramFile throws 'Invalid file path' and
\* opens nothing, removeFile unlinks nothing; only the uploads directory and its
\* descendants are ever opened or unlinked.
C4_PathGuardInside ==
    /\ (callee = "sendTelegramFile" /\ ~InsideUploads(arg))
           => (ret = Threw(ErrInvalidPath) /\ opened = {})
    /\ (callee = "removeFile" /\ ~InsideUploads(arg)) => unlinked = {}
    /\ \A p \in opened \cup unlinked : InsideUploads(p)

\* C4 witness: sendTelegramFile refused a file in the sibling directory whose name
\* starts with the name of the uploads directory.
C4_Witness ==
    /\ callee = "sendTelegramFile"
    /\ Resolve(arg) = Dirname \o << <<"u", "p", "x">>, <<"f">> >>
    /\ ret = Threw(ErrInvalidPath)
    /\ opened = {}

\* C5: a finished /send-message request with every field present and both secrets
\* configured made exactly one outbound call, and is answered 200 with success =
\* true when the API said ok, 500 with success = false when it said not ok.
C5_OneCallAndItsAnswer ==
    \A r \in Requests :
        (route[r] = "/send-message" /\ ~obs[r].malformed /\ ~obs[r].absent
         /\ Configured /\ Finished(r))
            => /\ Len(apiCalls[r]) = 1
               /\ apiResult[r].kind = "ok" => Answered(r, 200, TRUE)
               /\ apiResult[r].kind = "notok" => Answered(r, 500, FALSE)

RECURSIVE Count(_, _)
Count(s, c) ==
    IF s = <<>> THEN 0 ELSE (IF Head(s) = c THEN 1 ELSE 0) + Count(Tail(s), c)

\* C6: sanitizeInput never fails and returns a string: the empty string for a
\* non-string or empty input; for a string, the text with no raw '<' or '>' left,
\* four characters per replaced one, and every other character where it was.
C6_SanitizeTotal ==
    callee \in {"sanitizeInput", "sanitizeInputTypeof"}
        => /\ ret.ok
           /\ ret.value.t = "string"
           /\ (arg.t # "string" \/ arg.s = <<>>) => ret.value.s = <<>>
           /\ arg.t = "string" =>
                /\ Count(ret.value.s, "<") = 0
                /\ Count(ret.value.s, ">") = 0
                /\ Len(ret.value.s) = Len(arg.s) + 3 * (Count(arg.s, "<") + Count(arg.s, ">"))
                /\ \A c \in Alphabet \ {"<", ">", "&"} :
                       Count(ret.value.s, c) = Count(arg.s, c)

\* C7: a /send-file request whose file has a type outside the allow-list or a
\* size over the limit is finished with one 400 response, success = false; its
\* handler body never ran, it made no outbound call, and no file of its own is in
\* the uploads directory.
C7_RejectedUpload ==
    \A r \in Requests :
        (route[r] = "/send-file" /\ obs[r].attached
         /\ (obs[r].mimetype \notin allowedMimes \/ obs[r].size > 20 * 1024 * 1024))
            => /\ Finished(r)
               /\ Answered(r, 400, FALSE)
               /\ ~handlerRan[r]
               /\ apiCalls[r] = <<>>
               /\ ~OwnFileOnDisk(r)
               /\ \A e \in disk : e.owner # r

\* C7 witness: one upload was refused for its type and one for its size.
C7_Witness ==
    \E r1, r2 \in Requests :
        /\ obs[r1].fieldname = "file" /\ obs[r1].mimetype = Mime("application", "x-msdownload")
        /\ responses[r1] = <<Resp(400, FALSE, ErrTypeNotSupported)>>
        /\ obs[r2].fieldname = "file" /\ obs[r2].mimetype \in allowedMimes
        /\ obs[r2].size > 20 * 1024 * 1024
        /\ responses[r2] = <<Resp(400, FALSE, MsgTooLarge)>>

\* C8: with the bot token or the chat id missing the process never exits, and a
\* finished request with its required fields present made no outbound call and is
\* answered 500 with the configuration-error message, which names no secret.
C8_MissingSecretsKeepServing ==
    ~(env.token /\ env.chat)
        => /\ procState # "exited"
           /\ \A r \in Requests :
                  (Finished(r) /\ ~obs[r].malformed /\ ~obs[r].absent /\ handlerRan[r])
                      => (responses[r] = <<Resp(500, FALSE, MsgConfig)>>
                          /\ apiCalls[r] = <<>>)

\* C9: a finished request whose handler caught an exception is answered 500 with
\* one of the fixed generic messages, never with the text of the exception.
C9_GenericMessageOnException ==
    \A r \in Requests :
        (Finished(r) /\ thrown[r] # NoError)
            => /\ Answered(r, 500, FALSE)
               /\ responses[r][1].message \in GenericMessages
               /\ responses[r][1].message # thrown[r]

\* C10: two requests in flight with stored files never have the same stored
\* file name.
C10_DistinctStoredNames ==
    \A r1, r2 \in Requests :
        (r1 # r2 /\ InFlightWithFile(r1) /\ InFlightWithFile(r2))
            => file[r1].path # file[r2].path

====
